---- MODULE Spec2Model ----
(***************************************************************************)
(* A model of twisted.runner.procmon.ProcessMonitor: the table of named    *)
(* processes, the protocols / delay / timeStarted / murder / restart       *)
(* dictionaries, and the reactor it drives (clock, delayed calls, spawned  *)
(* processes).  Every handler of ProcessMonitor is one operator over a     *)
(* record of the whole state, so that a handler which calls another        *)
(* (addProcess -> startProcess, removeProcess -> stopProcess, ...) is one  *)
(* atomic action, as it is one uninterrupted call in the event loop.       *)
(***************************************************************************)
EXTENDS Integers, FiniteSets, Sequences, TLC

(***************************************************************************)
(* running          Service.running                                        *)
(* _processes       name -> argv of the registered process                 *)
(* protocols        name -> the LoggingProtocol of its process, named by   *)
(*                  the process transport it is connected to               *)
(* delay            name -> the current restart delay                      *)
(* timeStarted      name -> seconds since the last spawn                   *)
(* murder, restart  name -> the DelayedCall kept for it (Inactive once it  *)
(*                  has run or was cancelled)                              *)
(* killTime, maxRestartDelay   the instance attributes of these names      *)
(* calls            the reactor's pending delayed calls: id, seconds left  *)
(*                  (after), the callable (fn) and its argument (arg)      *)
(* procs            the spawned processes whose exit is not yet reported:  *)
(*                  name, whether the process still runs (alive), seconds  *)
(*                  since the first TERM it received (term, -1 if none)    *)
(*                  and what became of a KILL signalled to it (kill)       *)
(* python           the major version of the interpreter                   *)
(* loggers          the LoggingProtocol of each such process: its          *)
(*                  LineLogger's buffer (output), its empty flag, every    *)
(*                  byte it received so far and the lines it logged        *)
(* ended            what the LoggingProtocol whose processEnded ran last   *)
(*                  had received and logged when it called connectionLost  *)
(* last             the handler that ran last, its name argument and the   *)
(*                  exception it raised                                    *)
(***************************************************************************)
VARIABLES running, _processes, protocols, delay, timeStarted, murder,
          restart, killTime, maxRestartDelay, calls, procs, python, loggers,
          ended, last

vars == <<running, _processes, protocols, delay, timeStarted, murder,
          restart, killTime, maxRestartDelay, calls, procs, python, loggers,
          ended, last>>

\* The dictionaries and flags of ProcessMonitor itself (no reactor, no ghost).
monitor == <<running, _processes, protocols, delay, timeStarted, murder,
             restart>>

----------------------------------------------------------------------------
\* Bound of the model: the delayed calls pending at once.
MaxCalls == 2

\* The values the instance attributes killTime and maxRestartDelay are set
\* to before the monitor is used (the class gives the defaults 5 and 3600).
KillTimes == {1}
MaxRestartDelays == {3}

\* The maxRestartDelay of the backoff scenario (1, 2, 4, then 8).
ScenarioMaxRestartDelays == {60}

\* Bounds of the output of one process: the bytes of one chunk handed to
\* outReceived and the bytes a process writes in all.
MaxChunk == 2
MaxBytes == 3

\* The bytes a process writes: the delimiter and another byte.
Bytes == {"\n", "x"}

\* The chunks outReceived is called with (the reactor hands over what it
\* read, never an empty string).
Chunks == UNION {[1..k -> Bytes] : k \in 1..MaxChunk}

\* The interpreters the package runs on.  The monitor's own handlers do not
\* depend on it; the logger's outReceived does.
Pythons == {3}
LoggerPythons == {2, 3}

\* Names and argv values the callers use.
Names == {"a"}
Args == {"x", "y"}

\* Class attributes of ProcessMonitor that the model keeps at their defaults.
threshold == 1
minRestartDelay == 1

\* Time is kept relative to the reactor's clock: a delayed call holds the
\* seconds left until it is due, timeStarted[name] holds the seconds since
\* the spawn (reactor.seconds() - timeStarted[name], all the code reads of
\* it) and a process holds the seconds since its first TERM.  An age stops
\* growing once the comparisons of the code and of the properties cannot
\* tell it from a larger one.
Age(t, cap) == IF t < cap THEN t + 1 ELSE t

\* A DelayedCall that has run or was cancelled: active() is false.
Inactive == 0

----------------------------------------------------------------------------
\* Python dictionaries: functions with a changing domain.
EmptyDict == [k \in {} |-> 0]

Put(d, k, v) == [x \in (DOMAIN d) \cup {k} |-> IF x = k THEN v ELSE d[x]]

Del(d, k) == [x \in (DOMAIN d) \ {k} |-> d[x]]

Values(d) == {d[k] : k \in DOMAIN d}

Min(x, y) == IF x < y THEN x ELSE y

\* The least positive integer not in used: the identity of a new object.
Fresh(used) ==
    CHOOSE i \in 1..(Cardinality(used) + 1) :
        i \notin used /\ \A j \in 1..(i - 1) : j \in used

----------------------------------------------------------------------------
\* The whole state as one record, handed through the handlers.
State ==
    [running |-> running, _processes |-> _processes, protocols |-> protocols,
     delay |-> delay, timeStarted |-> timeStarted, murder |-> murder,
     restart |-> restart, killTime |-> killTime,
     maxRestartDelay |-> maxRestartDelay, calls |-> calls, procs |-> procs,
     python |-> python, loggers |-> loggers, ended |-> ended,
     err |-> "none"]

\* The reactor's pending (uncancelled, not yet run) delayed calls.
CallIds(s) == {c.id : c \in s.calls}

\* DelayedCall.active()
active(s, id) == id \in CallIds(s)

\* The DelayedCall id leaves the reactor's pending calls (it ran or was
\* cancelled); whoever still holds it holds an inactive call.
retire(s, id) ==
    [s EXCEPT !.calls = {c \in @ : c.id # id},
              !.murder = [n \in DOMAIN @ |-> IF @[n] = id THEN Inactive ELSE @[n]],
              !.restart = [n \in DOMAIN @ |-> IF @[n] = id THEN Inactive ELSE @[n]]]

\* DelayedCall.cancel()
cancel(s, id) == retire(s, id)

\* The identity of the DelayedCall the next callLater returns.
NewCall(s) == Fresh(CallIds(s) \cup Values(s.murder) \cup Values(s.restart))

\* reactor.callLater(delay, fn, arg)
callLater(s, d, fn, arg) ==
    [s EXCEPT !.calls = @ \cup {[id |-> NewCall(s), after |-> d,
                                 fn |-> fn, arg |-> arg]}]

\* The identity of the process transport the next spawnProcess creates.
NewProc(s) ==
    Fresh((DOMAIN s.procs)
          \cup {c.arg : c \in {x \in s.calls : x.fn = "_forceStopProcess"}})

\* LineLogger.lineReceived: the line is logged with the tag.  (The bytes
\* written here are ASCII: decoding them gives the same characters.)
lineReceived(l, line) ==
    [l EXCEPT !.lines = Append(@, [tag |-> l.tag, line |-> line])]

\* LineReceiver.dataReceived: the bytes are buffered, and every time the
\* delimiter arrives the buffered line is handed to lineReceived.
RECURSIVE dataReceived(_, _)
dataReceived(l, data) ==
    IF data = <<>> THEN l
    ELSE LET l1 == IF Head(data) = "\n"
                   THEN [lineReceived(l, l.output) EXCEPT !.output = <<>>]
                   ELSE [l EXCEPT !.output = Append(@, Head(data))]
         IN  dataReceived(l1, Tail(data))

\* data[-1]: a string of length one in Python 2, an integer in Python 3.
LastItem(data, py) ==
    LET b == data[Len(data)]
    IN  IF py = 2 THEN [type |-> "bytes", val |-> <<b>>]
        ELSE [type |-> "int", val |-> IF b = "\n" THEN 10 ELSE 120]

\* x == y in Python: values of different types are not equal.
PyEq(x, y) == x.type = y.type /\ x.val = y.val

\* LoggingProtocol.connectionMade (empty is the class attribute 1)
connectionMade(s, proc, name) ==
    [s EXCEPT !.loggers = Put(@, proc, [tag |-> name, output |-> <<>>,
                                        empty |-> TRUE, received |-> <<>>,
                                        lines |-> <<>>])]

\* LoggingProtocol.outReceived (and errReceived)
outReceived(s, proc, data) ==
    [s EXCEPT !.loggers[proc] =
        [dataReceived(@, data) EXCEPT
            !.empty = PyEq(LastItem(data, s.python),
                           [type |-> "bytes", val |-> <<"\n">>]),
            !.received = @ \o data]]

\* reactor.spawnProcess(proto, ...): a new running process for name, to
\* which the protocol is connected.
spawnProcess(s, name) ==
    connectionMade([s EXCEPT !.procs = Put(@, NewProc(s),
                                [name |-> name, alive |-> TRUE, term |-> -1,
                                 kill |-> "none"])],
                   NewProc(s), name)

\* Whether proc.signalProcess(...) raises ProcessExitedAlready.
ExitedAlready(s, proc) == proc \notin DOMAIN s.procs \/ ~s.procs[proc].alive

\* proc.signalProcess('TERM') on a running process.
signalTERM(s, proc) ==
    [s EXCEPT !.procs[proc].term = IF @ = -1 THEN 0 ELSE @]

----------------------------------------------------------------------------
\* startProcess without the "already running" test.
startProcess_unguarded(s, name) ==
    IF name \notin DOMAIN s._processes
    THEN [s EXCEPT !.err = "KeyError"]
    ELSE LET proto == NewProc(s)
             s1 == [s EXCEPT !.protocols = Put(@, name, proto),
                             !.timeStarted = Put(@, name, 0)]
         IN  spawnProcess(s1, name)

\* ProcessMonitor.startProcess
startProcess(s, name) ==
    IF name \in DOMAIN s.protocols THEN s
    ELSE IF name \notin DOMAIN s._processes
    THEN [s EXCEPT !.err = "KeyError"]
    ELSE LET proto == NewProc(s)
             s1 == [s EXCEPT !.protocols = Put(@, name, proto),
                             !.timeStarted = Put(@, name, 0)]
         IN  spawnProcess(s1, name)

\* _forceStopProcess signalling KILL to the processes the monitor holds in
\* protocols when the call fires, instead of the transport handed to it.
_forceStopProcess_current(s, proc) ==
    [s EXCEPT !.procs =
        [p \in DOMAIN @ |->
            IF p \in Values(s.protocols) /\ @[p].alive
            THEN [@[p] EXCEPT !.kill = "delivered"]
            ELSE @[p]]]

\* _forceStopProcess signalling TERM once more instead of KILL.
_forceStopProcess_term(s, proc) ==
    IF ExitedAlready(s, proc) THEN s ELSE signalTERM(s, proc)

\* ProcessMonitor._forceStopProcess
_forceStopProcess(s, proc) ==
    IF ExitedAlready(s, proc)
    THEN IF proc \in DOMAIN s.procs
         THEN [s EXCEPT !.procs[proc].kill = IF @ = "none" THEN "failed" ELSE @]
         ELSE s
    ELSE [s EXCEPT !.procs[proc].kill = "delivered"]

\* stopProcess arming the kill call whether or not TERM was delivered (the
\* callLater outside the else clause of the try).
stopProcess_armAnyway(s, name) ==
    IF name \notin DOMAIN s._processes
    THEN [s EXCEPT !.err = "KeyError"]
    ELSE IF name \notin DOMAIN s.protocols THEN s
    ELSE LET proc == s.protocols[name]
             s1 == IF ExitedAlready(s, proc) THEN s ELSE signalTERM(s, proc)
             s2 == callLater(s1, s1.killTime, "_forceStopProcess", proc)
         IN  [s2 EXCEPT !.murder = Put(@, name, NewCall(s1))]

\* stopProcess without the test that the name is registered.
stopProcess_unchecked(s, name) ==
    IF name \notin DOMAIN s.protocols THEN s
    ELSE LET proc == s.protocols[name]
         IN  IF ExitedAlready(s, proc) THEN s
             ELSE LET s1 == signalTERM(s, proc)
                      s2 == callLater(s1, s1.killTime, "_forceStopProcess",
                                      proc)
                  IN  [s2 EXCEPT !.murder = Put(@, name, NewCall(s1))]

\* ProcessMonitor.stopProcess
stopProcess(s, name) ==
    IF name \notin DOMAIN s._processes
    THEN [s EXCEPT !.err = "KeyError"]
    ELSE IF name \notin DOMAIN s.protocols THEN s
    ELSE LET proc == s.protocols[name]
         IN  IF ExitedAlready(s, proc) THEN s
             ELSE LET s1 == signalTERM(s, proc)
                      s2 == callLater(s1, s1.killTime, "_forceStopProcess",
                                      proc)
                  IN  [s2 EXCEPT !.murder = Put(@, name, NewCall(s1))]

\* connectionLost with the comparison against threshold the wrong way round:
\* the process that ran long is backed off, the one that died at once is
\* restarted at once.
connectionLost_flipped(s, name) ==
    LET s1 == IF name \in DOMAIN s.murder
              THEN LET c == IF active(s, s.murder[name])
                            THEN cancel(s, s.murder[name]) ELSE s
                   IN  [c EXCEPT !.murder = Del(@, name)]
              ELSE s
        s2 == [s1 EXCEPT !.protocols = Del(@, name)]
        fast == s2.timeStarted[name] >= threshold
        nextDelay == IF fast THEN s2.delay[name] ELSE 0
        s3 == [s2 EXCEPT !.delay[name] =
                  IF fast THEN Min(@ * 2, s2.maxRestartDelay)
                  ELSE minRestartDelay]
    IN  IF s3.running /\ name \in DOMAIN s3._processes
        THEN [callLater(s3, nextDelay, "startProcess", name)
                 EXCEPT !.restart = Put(@, name, NewCall(s3))]
        ELSE s3

\* connectionLost doubling the delay without the cap of maxRestartDelay.
connectionLost_nocap(s, name) ==
    LET s1 == IF name \in DOMAIN s.murder
              THEN LET c == IF active(s, s.murder[name])
                            THEN cancel(s, s.murder[name]) ELSE s
                   IN  [c EXCEPT !.murder = Del(@, name)]
              ELSE s
        s2 == [s1 EXCEPT !.protocols = Del(@, name)]
        fast == s2.timeStarted[name] < threshold
        nextDelay == IF fast THEN s2.delay[name] ELSE 0
        s3 == [s2 EXCEPT !.delay[name] =
                  IF fast THEN @ * 2 ELSE minRestartDelay]
    IN  IF s3.running /\ name \in DOMAIN s3._processes
        THEN [callLater(s3, nextDelay, "startProcess", name)
                 EXCEPT !.restart = Put(@, name, NewCall(s3))]
        ELSE s3

\* connectionLost doubling the delay before it reads it (double-then-delay).
connectionLost_doubleFirst(s, name) ==
    LET s1 == IF name \in DOMAIN s.murder
              THEN LET c == IF active(s, s.murder[name])
                            THEN cancel(s, s.murder[name]) ELSE s
                   IN  [c EXCEPT !.murder = Del(@, name)]
              ELSE s
        s2 == [s1 EXCEPT !.protocols = Del(@, name)]
        fast == s2.timeStarted[name] < threshold
        s3 == [s2 EXCEPT !.delay[name] =
                  IF fast THEN Min(@ * 2, s2.maxRestartDelay)
                  ELSE minRestartDelay]
        nextDelay == IF fast THEN s3.delay[name] ELSE 0
    IN  IF s3.running /\ name \in DOMAIN s3._processes
        THEN [callLater(s3, nextDelay, "startProcess", name)
                 EXCEPT !.restart = Put(@, name, NewCall(s3))]
        ELSE s3

\* connectionLost cancelling and dropping every kill call the monitor holds
\* (self.murder.clear()) instead of the one of name.
connectionLost_clearMurder(s, name) ==
    LET s1 == [s EXCEPT !.calls = {c \in @ : c.id \notin Values(s.murder)},
                        !.murder = EmptyDict]
        s2 == [s1 EXCEPT !.protocols = Del(@, name)]
        fast == s2.timeStarted[name] < threshold
        nextDelay == IF fast THEN s2.delay[name] ELSE 0
        s3 == [s2 EXCEPT !.delay[name] =
                  IF fast THEN Min(@ * 2, s2.maxRestartDelay)
                  ELSE minRestartDelay]
    IN  IF s3.running /\ name \in DOMAIN s3._processes
        THEN [callLater(s3, nextDelay, "startProcess", name)
                 EXCEPT !.restart = Put(@, name, NewCall(s3))]
        ELSE s3

\* ProcessMonitor.connectionLost
connectionLost(s, name) ==
    LET s1 == IF name \in DOMAIN s.murder
              THEN LET c == IF active(s, s.murder[name])
                            THEN cancel(s, s.murder[name]) ELSE s
                   IN  [c EXCEPT !.murder = Del(@, name)]
              ELSE s
        s2 == [s1 EXCEPT !.protocols = Del(@, name)]
        fast == s2.timeStarted[name] < threshold
        nextDelay == IF fast THEN s2.delay[name] ELSE 0
        s3 == [s2 EXCEPT !.delay[name] =
                  IF fast THEN Min(@ * 2, s2.maxRestartDelay)
                  ELSE minRestartDelay]
    IN  IF name \notin DOMAIN s1.protocols
        THEN [s1 EXCEPT !.err = "KeyError"]
        ELSE IF name \notin DOMAIN s2.timeStarted
                \/ name \notin DOMAIN s2.delay
        THEN [s2 EXCEPT !.err = "KeyError"]
        ELSE IF s3.running /\ name \in DOMAIN s3._processes
        THEN [callLater(s3, nextDelay, "startProcess", name)
                 EXCEPT !.restart = Put(@, name, NewCall(s3))]
        ELSE s3

\* addProcess that registers the process and leaves the start to others.
addProcess_nostart(s, name, args) ==
    IF name \in DOMAIN s._processes
    THEN [s EXCEPT !.err = "KeyError"]
    ELSE [s EXCEPT !._processes = Put(@, name, args),
                   !.delay = Put(@, name, minRestartDelay)]

\* addProcess without the duplicate-name test.
addProcess_overwrite(s, name, args) ==
    LET s1 == [s EXCEPT !._processes = Put(@, name, args),
                        !.delay = Put(@, name, minRestartDelay)]
    IN  IF s1.running THEN startProcess(s1, name) ELSE s1

\* ProcessMonitor.addProcess
addProcess(s, name, args) ==
    IF name \in DOMAIN s._processes
    THEN [s EXCEPT !.err = "KeyError"]
    ELSE LET s1 == [s EXCEPT !._processes = Put(@, name, args),
                             !.delay = Put(@, name, minRestartDelay)]
         IN  IF s1.running THEN startProcess(s1, name) ELSE s1

\* removeProcess that also drops the delay and the start time of the name.
removeProcess_purge(s, name) ==
    LET s1 == stopProcess(s, name)
    IN  IF s1.err # "none" THEN s1
        ELSE IF name \notin DOMAIN s1._processes
        THEN [s1 EXCEPT !.err = "KeyError"]
        ELSE [s1 EXCEPT !._processes = Del(@, name),
                        !.delay = Del(@, name),
                        !.timeStarted = Del(@, name)]

\* ProcessMonitor.removeProcess
removeProcess(s, name) ==
    LET s1 == stopProcess(s, name)
    IN  IF s1.err # "none" THEN s1
        ELSE IF name \notin DOMAIN s1._processes
        THEN [s1 EXCEPT !.err = "KeyError"]
        ELSE [s1 EXCEPT !._processes = Del(@, name)]

\* "for name in self._processes: self.startProcess(name)", one name after
\* the other.
RECURSIVE startAll(_, _)
startAll(s, names) ==
    IF names = {} THEN s
    ELSE LET n == CHOOSE x \in names : TRUE
         IN  startAll(startProcess(s, n), names \ {n})

\* "for name in self._processes: self.stopProcess(name)", one name after
\* the other.
RECURSIVE stopAll(_, _)
stopAll(s, names) ==
    IF names = {} THEN s
    ELSE LET n == CHOOSE x \in names : TRUE
         IN  stopAll(stopProcess(s, n), names \ {n})

\* startService that marks the service running and starts nothing.
startService_nostart(s) == [s EXCEPT !.running = TRUE]

\* ProcessMonitor.startService
startService(s) ==
    startAll([s EXCEPT !.running = TRUE], DOMAIN s._processes)

\* "for name, delayedCall in self.restart.items(): if delayedCall.active():
\* delayedCall.cancel()", one entry after the other.
RECURSIVE cancelRestarts(_, _)
cancelRestarts(s, names) ==
    IF names = {} THEN s
    ELSE LET n == CHOOSE x \in names : TRUE
             s1 == IF active(s, s.restart[n]) THEN cancel(s, s.restart[n])
                   ELSE s
         IN  cancelRestarts(s1, names \ {n})

\* ProcessMonitor.stopService
stopService(s) ==
    LET s1 == [s EXCEPT !.running = FALSE]
        s2 == cancelRestarts(s1, DOMAIN s1.restart)
    IN  stopAll(s2, DOMAIN s2._processes)

\* restartAll that starts the processes again itself after stopping them.
restartAll_respawn(s) ==
    startAll(stopAll(s, DOMAIN s._processes), DOMAIN s._processes)

\* ProcessMonitor.restartAll
restartAll(s) == stopAll(s, DOMAIN s._processes)

\* LoggingProtocol.processEnded, called by the reactor once the process
\* transport proc is gone: it flushes the logger and hands the exit to the
\* monitor.
processEnded(s, proc) ==
    LET l == IF ~s.loggers[proc].empty
             THEN dataReceived(s.loggers[proc], <<"\n">>)
             ELSE s.loggers[proc]
        s1 == [s EXCEPT !.procs = Del(@, proc),
                        !.loggers = Del(@, proc),
                        !.ended = [received |-> l.received,
                                   lines |-> l.lines]]
    IN  connectionLost(s1, s.procs[proc].name)

\* The reactor runs a delayed call that is due.
runCall(s, c) ==
    LET s1 == retire(s, c.id)
    IN  IF c.fn = "startProcess" THEN startProcess(s1, c.arg)
        ELSE _forceStopProcess(s1, c.arg)

----------------------------------------------------------------------------
Init ==
    /\ running = FALSE
    /\ _processes = EmptyDict
    /\ protocols = EmptyDict
    /\ delay = EmptyDict
    /\ timeStarted = EmptyDict
    /\ murder = EmptyDict
    /\ restart = EmptyDict
    /\ killTime \in KillTimes
    /\ maxRestartDelay \in MaxRestartDelays
    /\ calls = {}
    /\ procs = EmptyDict
    /\ python \in Pythons
    /\ loggers = EmptyDict
    /\ ended = [received |-> <<>>, lines |-> <<>>]
    /\ last = [op |-> "__init__", name |-> "", err |-> "none"]

\* The state s becomes the next state; last records the handler that ran,
\* its name argument and the exception it raised.
Apply(s, op, name) ==
    /\ Cardinality(s.calls) <= MaxCalls
    /\ running' = s.running
    /\ _processes' = s._processes
    /\ protocols' = s.protocols
    /\ delay' = s.delay
    /\ timeStarted' = s.timeStarted
    /\ murder' = s.murder
    /\ restart' = s.restart
    /\ killTime' = s.killTime
    /\ maxRestartDelay' = s.maxRestartDelay
    /\ calls' = s.calls
    /\ procs' = s.procs
    /\ python' = s.python
    /\ loggers' = s.loggers
    /\ ended' = s.ended
    /\ last' = [op |-> op, name |-> name, err |-> s.err]

\* Calls of the public methods.
AddProcess(name, args) == Apply(addProcess(State, name, args), "addProcess", name)

RemoveProcess(name) == Apply(removeProcess(State, name), "removeProcess", name)

StartService == Apply(startService(State), "startService", "")

StopService == Apply(stopService(State), "stopService", "")

StartProcess(name) == Apply(startProcess(State, name), "startProcess", name)

StopProcess(name) == Apply(stopProcess(State, name), "stopProcess", name)

RestartAll == Apply(restartAll(State), "restartAll", "")

\* A running process dies (by itself or from a signal); its exit is not yet
\* reported, and signalling it raises ProcessExitedAlready from now on.
ProcessExits(proc) ==
    /\ proc \in DOMAIN procs
    /\ procs[proc].alive
    /\ Apply([State EXCEPT !.procs[proc].alive = FALSE], "processExits",
             procs[proc].name)

\* The reactor reports the exit of a dead process.
ProcessEnded(proc) ==
    /\ proc \in DOMAIN procs
    /\ ~procs[proc].alive
    /\ Apply(processEnded(State, proc), "processEnded", procs[proc].name)

\* The reactor hands a chunk of the output of a process to its protocol.
OutReceived(proc, data) ==
    /\ proc \in DOMAIN loggers
    /\ Len(loggers[proc].received) + Len(data) <= MaxBytes
    /\ Apply(outReceived(State, proc, data), "outReceived", procs[proc].name)

\* The reactor runs a delayed call whose time has come.
RunDelayedCall(c) ==
    /\ c \in calls
    /\ c.after = 0
    /\ Apply(runCall(State, c),
             IF c.fn = "startProcess" THEN "call:startProcess"
             ELSE "call:_forceStopProcess",
             IF c.fn = "startProcess" THEN c.arg ELSE "")

\* One second passes on the reactor's clock.
tick(s) ==
    [s EXCEPT !.calls = {[c EXCEPT !.after = @ - 1] : c \in @},
              !.timeStarted = [n \in DOMAIN @ |-> Age(@[n], threshold)],
              !.procs = [p \in DOMAIN @ |->
                           [@[p] EXCEPT !.term = IF @ = -1 THEN -1
                                                ELSE Age(@, s.killTime + 1)]]]

\* The clock advances by one second once every due call has run.
Tick ==
    /\ \A c \in calls : c.after > 0
    /\ Apply(tick(State), "tick", "")

Next ==
    \/ \E name \in Names, args \in Args : AddProcess(name, args)
    \/ \E name \in Names : RemoveProcess(name)
    \/ StartService
    \/ StopService
    \/ \E name \in Names : StartProcess(name)
    \/ \E name \in Names : StopProcess(name)
    \/ RestartAll
    \/ \E proc \in DOMAIN procs : ProcessExits(proc)
    \/ \E proc \in DOMAIN procs : ProcessEnded(proc)
    \/ \E c \in calls : RunDelayedCall(c)
    \/ Tick

Spec == Init /\ [][Next]_vars

\* The monitor left to itself with maxRestartDelay = 60: a process is added,
\* the service is started once, and the process exits again and again, fast
\* or after a healthy run; only the restart calls start it again.
InitBackoff ==
    /\ running = FALSE
    /\ _processes = EmptyDict
    /\ protocols = EmptyDict
    /\ delay = EmptyDict
    /\ timeStarted = EmptyDict
    /\ murder = EmptyDict
    /\ restart = EmptyDict
    /\ killTime \in KillTimes
    /\ maxRestartDelay \in ScenarioMaxRestartDelays
    /\ calls = {}
    /\ procs = EmptyDict
    /\ python \in Pythons
    /\ loggers = EmptyDict
    /\ ended = [received |-> <<>>, lines |-> <<>>]
    /\ last = [op |-> "__init__", name |-> "", err |-> "none"]

NextBackoff ==
    \/ \E name \in Names, args \in Args : AddProcess(name, args)
    \/ ~running /\ StartService
    \/ \E proc \in DOMAIN procs : ProcessExits(proc)
    \/ \E proc \in DOMAIN procs : ProcessEnded(proc)
    \/ \E c \in calls : RunDelayedCall(c)
    \/ Tick

SpecBackoff == InitBackoff /\ [][NextBackoff]_vars

\* The monitor left to itself, on either interpreter, with processes that
\* write output before they exit.
InitLogger ==
    /\ running = FALSE
    /\ _processes = EmptyDict
    /\ protocols = EmptyDict
    /\ delay = EmptyDict
    /\ timeStarted = EmptyDict
    /\ murder = EmptyDict
    /\ restart = EmptyDict
    /\ killTime \in KillTimes
    /\ maxRestartDelay \in MaxRestartDelays
    /\ calls = {}
    /\ procs = EmptyDict
    /\ python \in LoggerPythons
    /\ loggers = EmptyDict
    /\ ended = [received |-> <<>>, lines |-> <<>>]
    /\ last = [op |-> "__init__", name |-> "", err |-> "none"]

NextLogger ==
    \/ \E name \in Names, args \in Args : AddProcess(name, args)
    \/ ~running /\ StartService
    \/ \E proc \in DOMAIN procs, data \in Chunks : OutReceived(proc, data)
    \/ \E proc \in DOMAIN procs : ProcessExits(proc)
    \/ \E proc \in DOMAIN procs : ProcessEnded(proc)
    \/ \E c \in calls : RunDelayedCall(c)
    \/ Tick

SpecLogger == InitLogger /\ [][NextLogger]_vars

\* Two names on one monitor whose service is started once: both are added,
\* the callers remove, start and stop the process of one of them by hand
\* while the other is left to the monitor, and the reactor delivers the exits
\* and runs the delayed calls of both.
TwoNames == {"a", "b"}
ByHand == {"a"}
TwoArgs == {"x"}
TwoMaxRestartDelays == {2}

InitTwo ==
    /\ running = FALSE
    /\ _processes = EmptyDict
    /\ protocols = EmptyDict
    /\ delay = EmptyDict
    /\ timeStarted = EmptyDict
    /\ murder = EmptyDict
    /\ restart = EmptyDict
    /\ killTime \in KillTimes
    /\ maxRestartDelay \in TwoMaxRestartDelays
    /\ calls = {}
    /\ procs = EmptyDict
    /\ python \in Pythons
    /\ loggers = EmptyDict
    /\ ended = [received |-> <<>>, lines |-> <<>>]
    /\ last = [op |-> "__init__", name |-> "", err |-> "none"]

\* Bound of the two-name model: the delayed calls pending at once.
TwoMaxCalls == 1

\* The step leaves no more than TwoMaxCalls delayed calls pending.
WithinTwo == Cardinality(calls') <= TwoMaxCalls

NextTwo ==
    \/ \E name \in TwoNames, args \in TwoArgs :
           AddProcess(name, args) /\ WithinTwo
    \/ \E name \in ByHand : RemoveProcess(name) /\ WithinTwo
    \/ ~running /\ StartService /\ WithinTwo
    \/ \E name \in ByHand : StartProcess(name) /\ WithinTwo
    \/ \E name \in ByHand : StopProcess(name) /\ WithinTwo
    \/ \E proc \in DOMAIN procs : ProcessExits(proc) /\ WithinTwo
    \/ \E proc \in DOMAIN procs : ProcessEnded(proc) /\ WithinTwo
    \/ \E c \in calls : RunDelayedCall(c) /\ WithinTwo
    \/ Tick /\ WithinTwo

SpecTwo == InitTwo /\ [][NextTwo]_vars

----------------------------------------------------------------------------
\* The processes spawned for name whose exit has not been reported yet.
Live(name) == {p \in DOMAIN procs : procs[p].name = name}

\* The pending delayed calls that will call startProcess(name).
RestartCalls(name) == {c \in calls : c.fn = "startProcess" /\ c.arg = name}

\* The pending delayed calls that will call _forceStopProcess(proc).
KillCalls(proc) == {c \in calls : c.fn = "_forceStopProcess" /\ c.arg = proc}

\* This step ran handler op with the name argument name.
Ran(op, name) == last'.op = op /\ last'.name = name

\* This step spawned a process for name.
Spawned(name) ==
    name \in DOMAIN protocols'
    /\ (name \in DOMAIN protocols => protocols'[name] # protocols[name])

\* C1: for every name at most one spawned process has not yet reported its
\* exit, and startProcess(name) (explicit or from a restart timer) run while
\* a process of name has not reported its exit spawns nothing.
C1_NoDoubleSpawn ==
    /\ [](\A n \in Names : Cardinality(Live(n)) <= 1)
    /\ [][\A n \in Names :
            ((Ran("startProcess", n) \/ Ran("call:startProcess", n))
             /\ n \in DOMAIN protocols)
            => procs' = procs /\ protocols' = protocols]_vars

\* startProcess has just run for a name whose process was spawned at least
\* a second ago and is still the one live process.
C1_Witness ==
    \E n \in Names :
        /\ last.op \in {"startProcess", "call:startProcess"}
        /\ last.name = n
        /\ n \in DOMAIN protocols
        /\ timeStarted[n] > 0
        /\ Cardinality(Live(n)) = 1

\* C2: while the service is running, every registered name has a process
\* that has not reported its exit or a pending delayed call that will call
\* startProcess for it.
C2_AliveOrRestarting ==
    running =>
        \A n \in DOMAIN _processes :
            n \in DOMAIN protocols \/ RestartCalls(n) # {}

\* The service runs, a registered name has no process and its restart is
\* pending.
C2_Witness ==
    \E n \in DOMAIN _processes :
        /\ running
        /\ n \notin DOMAIN protocols
        /\ RestartCalls(n) # {}
        /\ last.op = "processEnded"

\* C3: at the exit notification of name, a process that ran less than
\* threshold gets its restart scheduled after the delay held before the exit
\* and delay[name] becomes min(2 * delay[name], maxRestartDelay); a process
\* that ran at least threshold gets it scheduled after 0 seconds and
\* delay[name] becomes minRestartDelay.
C3_Backoff ==
    [][\A n \in Names :
        Ran("processEnded", n) =>
            LET fast == timeStarted[n] < threshold
                d == IF fast THEN delay[n] ELSE 0
            IN  /\ delay'[n] = IF fast THEN Min(2 * delay[n], maxRestartDelay)
                                ELSE minRestartDelay
                /\ (running /\ n \in DOMAIN _processes) =>
                       \E c \in calls' \ calls :
                           /\ c.fn = "startProcess" /\ c.arg = n
                           /\ c.after = d
                           /\ restart'[n] = c.id]_vars

\* The third fast exit in a row from delay 1 with maxRestartDelay = 60: the
\* restart is scheduled after 4 seconds and the delay is left at 8.
C3_Witness ==
    \E n \in DOMAIN _processes :
        /\ last.op = "processEnded" /\ last.name = n
        /\ running
        /\ maxRestartDelay = 60
        /\ delay[n] = 8
        /\ n \in DOMAIN restart
        /\ \E c \in calls : c.id = restart[n] /\ c.after = 4

\* C4 (as claimed): while the service is stopped, no step other than a call
\* of the public methods spawns a process: neither a delayed call, nor an
\* exit, nor the passing of time.
C4_NoSpawnAfterStop ==
    [][(~running /\ last'.op \in {"call:startProcess",
                                    "call:_forceStopProcess", "processExits",
                                    "processEnded", "tick"})
        => \A n \in Names : ~Spawned(n)]_vars

\* C5 (as claimed): removeProcess(name) leaves no pending restart call for
\* name.
C5_RemoveCancelsRestart ==
    [][\A n \in Names :
        (Ran("removeProcess", n) /\ last'.err = "none")
        => RestartCalls(n)' = {}]_vars

\* C6 (as claimed): no kill call is pending for a process whose exit has
\* been reported.
C6_NoKillCallAfterExit ==
    \A c \in calls : c.fn = "_forceStopProcess" => c.arg \in DOMAIN procs

\* C7: a process that was sent TERM by stopProcess and has not reported its
\* exit more than killTime seconds later has had KILL signalled to it (the
\* signalProcess('KILL') call was made on that very transport), and KILL is
\* signalled to no process that was not sent TERM before.
C7_Escalation ==
    \A p \in DOMAIN procs :
        /\ procs[p].term > killTime => procs[p].kill # "none"
        /\ procs[p].kill # "none" => procs[p].term # -1

\* A process still running killTime seconds after its TERM got KILL.
C7_Witness ==
    \E p \in DOMAIN procs :
        /\ procs[p].term >= killTime
        /\ procs[p].kill = "delivered"
        /\ last.op = "call:_forceStopProcess"

\* C8: addProcess on a registered name raises KeyError and changes nothing:
\* not the registration, the delay, the process, the pending calls.
C8_DuplicateName ==
    [][\A n \in Names :
        (Ran("addProcess", n) /\ n \in DOMAIN _processes)
        => /\ last'.err = "KeyError"
           /\ UNCHANGED <<monitor, calls, procs>>]_vars

\* addProcess was refused for a name with a backed-off delay.
C8_Witness ==
    \E n \in DOMAIN _processes :
        /\ last = [op |-> "addProcess", name |-> n, err |-> "KeyError"]
        /\ delay[n] > minRestartDelay
        /\ running

\* C9: stopProcess and removeProcess on a name that is not registered raise
\* KeyError, signal nothing, arm no call and change nothing.
C9_UnknownName ==
    [][\A n \in Names :
        ((Ran("stopProcess", n) \/ Ran("removeProcess", n))
         /\ n \notin DOMAIN _processes)
        => /\ last'.err = "KeyError"
           /\ UNCHANGED <<monitor, calls, procs>>]_vars

\* stopProcess or removeProcess was refused for a removed name whose
\* process is still running.
C9_Witness ==
    \E n \in Names :
        /\ last.op \in {"stopProcess", "removeProcess"}
        /\ last.name = n
        /\ last.err = "KeyError"
        /\ n \notin DOMAIN _processes
        /\ n \in DOMAIN protocols
        /\ procs[protocols[n]].alive

\* C10 (as claimed): stopProcess(name) on a process whose kill call from an
\* earlier stopProcess is still pending changes nothing.
C10_StopIdempotent ==
    [][\A n \in Names :
        (/\ Ran("stopProcess", n)
         /\ n \in DOMAIN protocols
         /\ n \in DOMAIN murder
         /\ KillCalls(protocols[n]) # {})
        => UNCHANGED <<monitor, calls, procs>>]_vars

RECURSIVE Join(_)
Join(lines) ==
    IF lines = <<>> THEN <<>>
    ELSE Head(lines).line \o <<"\n">> \o Join(Tail(lines))

\* C12 (as claimed): when a LoggingProtocol hands the exit to the monitor,
\* the lines it logged are exactly the bytes it received, followed by one
\* synthetic newline if and only if bytes were received and the last one was
\* not a newline: nothing is lost and no extra empty line is logged.
C12_FlushOnExit ==
    LET r == ended.received
        boundary == r = <<>> \/ r[Len(r)] = "\n"
    IN  Join(ended.lines) = IF boundary THEN r ELSE r \o <<"\n">>

\* C13: the delay of every registered name lies between minRestartDelay and
\* maxRestartDelay in every reachable state, and no step that leaves a name
\* registered lowers its delay, except the exit notification of a process of
\* that name that ran at least threshold.
C13_DelayRange ==
    /\ [](\A n \in DOMAIN _processes :
             minRestartDelay <= delay[n] /\ delay[n] <= maxRestartDelay)
    /\ [][\A n \in DOMAIN _processes :
            (n \in DOMAIN _processes'
             /\ ~(Ran("processEnded", n) /\ timeStarted[n] >= threshold))
            => delay'[n] >= delay[n]]_vars

\* A fast exit has just left the delay of a registered name at the cap,
\* which is not a power of two.
C13_Witness ==
    \E n \in DOMAIN _processes :
        /\ last.op = "processEnded" /\ last.name = n
        /\ delay[n] = maxRestartDelay
        /\ delay[n] > 2 * minRestartDelay
        /\ n \in DOMAIN restart
        /\ \E c \in calls : c.id = restart[n] /\ c.after = 2

\* C14: the exit notification of a spawned process never raises, whatever
\* ran before it (also when its name was removed, or removed and added
\* again): it drops protocols[name], drops murder[name] and cancels the call
\* held there, and arms a restart call if and only if the service is running
\* and the name is registered; it arms or cancels nothing else.
C14_ExitNeverRaises ==
    [][\A n \in Names :
        Ran("processEnded", n) =>
            /\ last'.err = "none"
            /\ n \notin DOMAIN protocols'
            /\ n \notin DOMAIN murder'
            /\ \A c \in calls :
                   (n \in DOMAIN murder /\ c.id = murder[n]) <=> c \notin calls'
            /\ \A c \in calls' \ calls :
                   c.fn = "startProcess" /\ c.arg = n /\ restart'[n] = c.id
            /\ (calls' \ calls # {}) <=> (running /\ n \in DOMAIN _processes)]_vars

\* The exit of a process arrived after its name was removed from a running
\* monitor: nothing is armed.
C14_Witness ==
    \E n \in Names :
        /\ last = [op |-> "processEnded", name |-> n, err |-> "none"]
        /\ running
        /\ n \notin DOMAIN _processes
        /\ n \notin DOMAIN protocols
        /\ n \in DOMAIN delay
        /\ RestartCalls(n) = {}

\* C15: stopProcess(name) on a registered name whose process has exited
\* without the exit being reported yet (TERM raises ProcessExitedAlready)
\* returns normally, arms no call and changes nothing; on a registered name
\* without a process it signals nothing, arms no call and changes nothing.
C15_StopAfterExit ==
    [][\A n \in DOMAIN _processes :
        (Ran("stopProcess", n)
         /\ (n \in DOMAIN protocols => ExitedAlready(State, protocols[n])))
        => /\ last'.err = "none"
           /\ UNCHANGED <<monitor, calls, procs>>]_vars

\* stopProcess has just returned for a name whose process is dead, its exit
\* not yet reported: no kill call is held or pending.
C15_Witness ==
    \E n \in DOMAIN _processes :
        /\ last = [op |-> "stopProcess", name |-> n, err |-> "none"]
        /\ n \in DOMAIN protocols
        /\ ~procs[protocols[n]].alive
        /\ n \notin DOMAIN murder
        /\ KillCalls(protocols[n]) = {}

Entry(dict, m) == IF m \in DOMAIN dict THEN <<dict[m]>> ELSE <<>>

NameView(m) ==
    <<Entry(_processes, m), Entry(protocols, m), Entry(delay, m),
      Entry(timeStarted, m), Entry(murder, m), Entry(restart, m),
      [p \in Live(m) |-> procs[p]],
      RestartCalls(m),
      {c \in calls : c.fn = "_forceStopProcess" /\ c.arg \in Live(m)}>>

\* This step ran addProcess, removeProcess, startProcess or stopProcess for
\* name n, the exit notification of a process of n, a restart call of n, or
\* a kill call that is not aimed at an unreported process of another name.
OpFor(n) ==
    \/ /\ last'.op \in {"addProcess", "removeProcess", "startProcess",
                        "stopProcess", "processEnded", "call:startProcess"}
       /\ last'.name = n
    \/ /\ last'.op = "call:_forceStopProcess"
       /\ \A c \in calls \ calls' :
              c.arg \in DOMAIN procs => procs[c.arg].name = n

C19_RestartNotEarly ==
    [][\A n \in Names :
        (Ran("call:startProcess", n) /\ Spawned(n))
        => \A c \in RestartCalls(n) :
               (n \in DOMAIN restart /\ c.id = restart[n]) => c.after = 0]_vars

\* C20: a kill call is armed for the process that has just been sent TERM,
\* and when it fires it signals KILL to that process and to no other: every
\* other process, also one spawned later for the same name, is left as it
\* is, and nothing is signalled if that process has exited.
C20_KillHitsItsTarget ==
    [][/\ \A c \in calls' :
            (c.fn = "_forceStopProcess" /\ c.id \notin {x.id : x \in calls})
            => /\ c.arg \in DOMAIN procs /\ c.arg \in DOMAIN procs'
               /\ procs[c.arg].alive
               /\ procs'[c.arg].term # -1
       /\ last'.op = "call:_forceStopProcess"
            => \E c \in calls \ calls' :
                   /\ c.fn = "_forceStopProcess"
                   /\ calls' = calls \ {c}
                   /\ DOMAIN procs' = DOMAIN procs
                   /\ \A p \in DOMAIN procs \ {c.arg} : procs'[p] = procs[p]
                   /\ c.arg \in DOMAIN procs =>
                          /\ procs[c.arg].term # -1
                          /\ procs'[c.arg] =
                                [procs[c.arg] EXCEPT !.kill =
                                    IF procs[c.arg].alive THEN "delivered"
                                    ELSE IF @ = "none" THEN "failed" ELSE @]
                   /\ UNCHANGED <<running, _processes, protocols, delay,
                                  timeStarted>>]_vars

\* A kill call armed for an earlier process of the name has just fired
\* while a process spawned later is running: that one got neither TERM nor
\* KILL.
C20_Witness ==
    \E n \in DOMAIN protocols :
        /\ last.op = "call:_forceStopProcess"
        /\ procs[protocols[n]].alive
        /\ procs[protocols[n]].term = -1
        /\ procs[protocols[n]].kill = "none"
        /\ n \notin DOMAIN murder
        /\ KillCalls(protocols[n]) = {}

====
